---- MODULE Spec2Model ----
(***************************************************************************)
(* Model of the SSH session of application/commands/ssh.go: the control    *)
(* task (Bootup, local, Close, Release), the remote task (sshClient.remote *)
(* with the callbacks the SSH library runs inside the handshake), the      *)
(* stderr pump it spawns, and the read loop of the SSH library going       *)
(* through sshRemoteConnWrapper.Read.                                      *)
(***************************************************************************)
EXTENDS Integers, Sequences, FiniteSets, TLC

\* ---- bounds of the model ------------------------------------------------
MaxOps == 3        \* client frames / Close / Release calls after Bootup
MaxOut == 1        \* chunks the stdout pump reads
MaxErr == 1        \* chunks the stderr pump reads
MaxHookOut == 1    \* output chunks of the BEFORE_CONNECTING hook

\* ---- auth methods (ssh.go:68-72) -----------------------------------------
SSHAuthMethodNone == 0
SSHAuthMethodPassphrase == 1
SSHAuthMethodPrivateKey == 2

AuthMethods ==
  {SSHAuthMethodNone, SSHAuthMethodPassphrase, SSHAuthMethodPrivateKey}

\* ---- credential size cap (ssh.go:56-58) ------------------------------------
sshCredentialMaxSize == 4096

\* failures of the session set-up between the handshake and the shell
SessionErrs ==
  {"NewSession", "StdinPipe", "StdoutPipe", "StderrPipe", "RequestPty",
   "Shell"}

VARIABLES
  booted,         \* "no" | "ok" | "failed": outcome of Bootup
  authMethod,     \* auth method selected by Bootup
  ctl,            \* position of the control task
  ctlOp,          \* frame the control task is handling while in getRemote
  ops,            \* operations the control task has started
  localErr,       \* what the last Bootup / local / Close call returned
  rpc,            \* position of the remote task
  epc,            \* position of the stderr pump
  rdpc,           \* position of the SSH library's read loop (wrapper Read)
  cbErr,          \* error the connect phase is failing with
  frames,         \* frames handed to the responder, in order
  credCh,         \* credentialReceive: buffered values
  credChClosed,   \* credentialReceive has been closed (channel state)
  fpCh,           \* fingerprintVerifyResultReceive: buffered values
  fpChClosed,     \* fingerprintVerifyResultReceive has been closed
  connCh,         \* remoteConnReceive: buffered values
  connChClosed,   \* remoteConnReceive has been closed
  remoteConn,     \* cached handle: "invalid" | "handle"
  credentialProcessed,
  credentialReceiveClosed,
  fingerprintProcessed,
  fingerprintVerifyResultReceiveClosed,
  remoteReadTimeoutRetry,
  remoteReadForceRetryNextTimeout,
  deadline,       \* read deadline of the connection: "none" | "armed"
  closeWait,      \* remoteCloseWait counter
  ctxCancelled,   \* baseCtx is cancelled
  onceDone,       \* the sync.OnceFunc guard of baseCtxCancel has fired
  connClosed,     \* the SSH session / connection has been closed
  hist            \* history counters used by the properties

vars ==
  <<booted, authMethod, ctl, ctlOp, ops, localErr, rpc, epc, rdpc, cbErr,
    frames,
    credCh, credChClosed, fpCh, fpChClosed, connCh, connChClosed, remoteConn,
    credentialProcessed, credentialReceiveClosed, fingerprintProcessed,
    fingerprintVerifyResultReceiveClosed, remoteReadTimeoutRetry,
    remoteReadForceRetryNextTimeout, deadline, closeWait, ctxCancelled,
    onceDone, connClosed, hist>>

ctlVars == <<booted, authMethod, ctl, ctlOp, ops, localErr>>
chanVars ==
  <<credCh, credChClosed, fpCh, fpChClosed, connCh, connChClosed>>
flagVars ==
  <<credentialProcessed, credentialReceiveClosed, fingerprintProcessed,
    fingerprintVerifyResultReceiveClosed>>
retryVars ==
  <<remoteReadTimeoutRetry, remoteReadForceRetryNextTimeout, deadline>>
ctxVars == <<ctxCancelled, onceDone>>

\* ---- the responder ----------------------------------------------------------
\* One entry per call of SendManual / Signal, in the order of the calls: the
\* marker and, for a ConnectFailed frame, the error text it carries.  What
\* the responder returns is an input of the caller.
Frame(m, e) == [m |-> m, e |-> e]

SendManual(m, e) == frames' = Append(frames, Frame(m, e))

Signal(m) == frames' = Append(frames, Frame(m, "-"))

Sent(m) == \E i \in 1..Len(frames) : frames[i].m = m

CountFrames(m) == Cardinality({i \in 1..Len(frames) : frames[i].m = m})

\* ---- history ---------------------------------------------------------------
Bump(f) == hist' = [hist EXCEPT ![f] = @ + 1]

HistInit ==
  [credSends |-> 0, fpSends |-> 0, fpRejects |-> 0, credCloses |-> 0,
   fpCloses |-> 0, cancelRuns |-> 0, closeReturns |-> 0,
   cleared |-> 0, retriesAfterClear |-> 0, refusalsAfterClear |-> 0,
   chanMisuse |-> 0, writes |-> 0, outReads |-> 0, errReads |-> 0,
   hookOut |-> 0, succeedOk |-> 0, spawnInClose |-> 0,
   connSends |-> 0, connCloses |-> 0, oversize |-> 0,
   sinceDisable |-> -1]

\* ---- newSSH (ssh.go:173-200) ------------------------------------------------
Init ==
  /\ booted = "no"
  /\ authMethod = SSHAuthMethodNone
  /\ ctl = "idle"
  /\ ctlOp = "-"
  /\ ops = 0
  /\ localErr = "-"
  /\ rpc = "none"
  /\ epc = "none"
  /\ rdpc = "none"
  /\ cbErr = "-"
  /\ frames = <<>>
  /\ credCh = <<>>
  /\ credChClosed = FALSE
  /\ fpCh = <<>>
  /\ fpChClosed = FALSE
  /\ connCh = <<>>
  /\ connChClosed = FALSE
  /\ remoteConn = "invalid"
  /\ credentialProcessed = FALSE
  /\ credentialReceiveClosed = FALSE
  /\ fingerprintProcessed = FALSE
  /\ fingerprintVerifyResultReceiveClosed = FALSE
  /\ remoteReadTimeoutRetry = FALSE
  /\ remoteReadForceRetryNextTimeout = FALSE
  /\ deadline = "none"
  /\ closeWait = 0
  /\ ctxCancelled = FALSE
  /\ onceDone = FALSE
  /\ connClosed = FALSE
  /\ hist = HistInit

\* ---- baseCtxCancel: sync.OnceFunc(ctxCancel) (ssh.go:179, 186) --------------
\* A baseCtxCancel without the one-shot guard.
OnceFuncRuns_Unguarded == TRUE

\* Whether a call of baseCtxCancel runs the wrapped cancel function.
OnceFuncRuns == ~onceDone

\* A call of baseCtxCancel, with h the history the caller has reached.
BaseCtxCancel(h) ==
  /\ onceDone' = TRUE
  /\ ctxCancelled' = (ctxCancelled \/ OnceFuncRuns)
  /\ hist' = IF OnceFuncRuns THEN [h EXCEPT !.cancelRuns = @ + 1] ELSE h

\* The SSH library can still read from the connection.
ConnAlive == rdpc \in {"read", "hook"} /\ ~connClosed

\* ---- remote task: BEFORE_CONNECTING hook (ssh.go:439-461) -------------------
RemoteHookOutput ==
  /\ rpc = "hook"
  /\ hist.hookOut < MaxHookOut
  /\ SendManual("HookOutputBeforeConnecting", "-")
  /\ Bump("hookOut")
  /\ UNCHANGED <<ctlVars, rpc, epc, rdpc, cbErr, chanVars, remoteConn,
                 flagVars, retryVars, closeWait, ctxVars, connClosed>>

RemoteHookDone ==
  /\ rpc = "hook"
  /\ \E failed \in BOOLEAN :
       IF failed
         THEN /\ SendManual("ConnectFailed", "hook")
              /\ rpc' = "exit_signal"
         ELSE /\ rpc' = "dial"
              /\ UNCHANGED frames
  /\ UNCHANGED <<ctlVars, epc, rdpc, cbErr, chanVars, remoteConn, flagVars,
                 retryVars, closeWait, ctxVars, connClosed, hist>>

\* ---- dialRemote: d.cfg.Dial under baseCtx (ssh.go:379-384, 406-409) ---------
\* A cancelled ctx makes the dial fail; otherwise it connects or fails by
\* itself (refused, dial timeout).
DialOutcomes == IF ctxCancelled THEN {"ctx"} ELSE {"-", "dial"}

DialRemote ==
  /\ rpc = "dial"
  /\ \E e \in DialOutcomes :
       IF e = "-"
         THEN /\ rpc' = "hs_hostkey"
              /\ rdpc' = "read"
              /\ deadline' = "armed"
              /\ cbErr' = cbErr
         ELSE /\ rpc' = "hs_fail"
              /\ cbErr' = e
              /\ UNCHANGED <<rdpc, deadline>>
  /\ UNCHANGED <<ctlVars, epc, frames, chanVars, remoteConn, flagVars,
                 remoteReadTimeoutRetry, remoteReadForceRetryNextTimeout,
                 closeWait, ctxVars, connClosed, hist>>

\* ---- enable / disable (ssh.go:360-373) ---------------------------------------
\* A callback that does not enable the retry.
enableRemoteReadTimeoutRetry_Skipped ==
  UNCHANGED <<remoteReadTimeoutRetry, remoteReadForceRetryNextTimeout,
              deadline, hist>>

enableRemoteReadTimeoutRetry ==
  /\ remoteReadTimeoutRetry' = TRUE
  /\ hist' = [hist EXCEPT !.sinceDisable = -1]
  /\ UNCHANGED <<remoteReadForceRetryNextTimeout, deadline>>

disableRemoteReadTimeoutRetry ==
  /\ remoteReadTimeoutRetry' = FALSE
  /\ remoteReadForceRetryNextTimeout' = TRUE
  /\ hist' = [hist EXCEPT !.sinceDisable = 0]
  /\ UNCHANGED deadline

\* ---- ssh.NewClientConn: key exchange, host key callback (ssh.go:411, 467) ---
HandshakeHostKey ==
  /\ rpc = "hs_hostkey"
  /\ \/ /\ ConnAlive
        /\ rpc' = "fp_enable"
        /\ cbErr' = cbErr
     \/ /\ rpc' = "hs_fail"
        /\ cbErr' = "handshake"
  /\ UNCHANGED <<ctlVars, epc, rdpc, frames, chanVars, remoteConn, flagVars,
                 retryVars, closeWait, ctxVars, connClosed, hist>>

\* ---- confirmRemoteFingerprint (ssh.go:329-358) ------------------------------
FpEnable ==
  /\ rpc = "fp_enable"
  /\ enableRemoteReadTimeoutRetry
  /\ rpc' = "fp_send"
  /\ UNCHANGED <<ctlVars, epc, rdpc, cbErr, frames, chanVars, remoteConn,
                 flagVars, closeWait, ctxVars, connClosed>>

FpSend ==
  /\ rpc = "fp_send"
  /\ \E ok \in BOOLEAN :
       /\ SendManual("ConnectVerifyFingerprint", "-")
       /\ rpc' = IF ok THEN "fp_wait" ELSE "fp_disable"
       /\ cbErr' = IF ok THEN cbErr ELSE "send"
  /\ UNCHANGED <<ctlVars, epc, rdpc, chanVars, remoteConn, flagVars,
                 retryVars, closeWait, ctxVars, connClosed, hist>>

\* confirmed, confirmOK := <-d.fingerprintVerifyResultReceive
FpWait ==
  /\ rpc = "fp_wait"
  /\ fpCh # <<>> \/ fpChClosed
  /\ IF fpCh # <<>>
       THEN /\ fpCh' = Tail(fpCh)
            /\ cbErr' = IF Head(fpCh) THEN "-" ELSE "refused"
       ELSE /\ fpCh' = fpCh
            /\ cbErr' = "fpCancelled"
  /\ rpc' = "fp_disable"
  /\ UNCHANGED <<ctlVars, epc, rdpc, frames, credCh, credChClosed, fpChClosed,
                 connCh, connChClosed, remoteConn, flagVars, retryVars,
                 closeWait, ctxVars, connClosed, hist>>

FpDisable ==
  /\ rpc = "fp_disable"
  /\ disableRemoteReadTimeoutRetry
  /\ rpc' = IF cbErr = "-" THEN "hs_auth" ELSE "hs_fail"
  /\ UNCHANGED <<ctlVars, epc, rdpc, cbErr, frames, chanVars, remoteConn,
                 flagVars, closeWait, ctxVars, connClosed>>

\* ---- ssh.NewClientConn: user authentication (ssh.go:262-327, 466) -----------
HandshakeAuth ==
  /\ rpc = "hs_auth"
  /\ \/ /\ ConnAlive
        /\ rpc' = IF authMethod = SSHAuthMethodNone
                    THEN "hs_finish" ELSE "cred_enable"
        /\ cbErr' = cbErr
     \/ /\ rpc' = "hs_fail"
        /\ cbErr' = "handshake"
  /\ UNCHANGED <<ctlVars, epc, rdpc, frames, chanVars, remoteConn, flagVars,
                 retryVars, closeWait, ctxVars, connClosed, hist>>

\* ---- password / public keys callback (ssh.go:273-291, 298-321) --------------
CredEnable ==
  /\ rpc = "cred_enable"
  /\ enableRemoteReadTimeoutRetry
  /\ rpc' = "cred_send"
  /\ UNCHANGED <<ctlVars, epc, rdpc, cbErr, frames, chanVars, remoteConn,
                 flagVars, closeWait, ctxVars, connClosed>>

CredSend ==
  /\ rpc = "cred_send"
  /\ \E ok \in BOOLEAN :
       /\ SendManual("ConnectRequestCredential", "-")
       /\ rpc' = IF ok THEN "cred_wait" ELSE "cred_disable"
       /\ cbErr' = IF ok THEN cbErr ELSE "send"
  /\ UNCHANGED <<ctlVars, epc, rdpc, chanVars, remoteConn, flagVars,
                 retryVars, closeWait, ctxVars, connClosed, hist>>

\* Errors the callback can return once it has received the credential: none
\* for a passphrase, a key parse failure for a private key.
CredentialErrs ==
  IF authMethod = SSHAuthMethodPrivateKey THEN {"-", "keyParse"} ELSE {"-"}

\* A receive that a close of the channel does not wake.
CredentialReceiveReady_ValueOnly == credCh # <<>>

\* The receive from d.credentialReceive does not block.
CredentialReceiveReady == credCh # <<>> \/ credChClosed

\* passphraseBytes, passphraseReceived := <-d.credentialReceive
CredWait ==
  /\ rpc = "cred_wait"
  /\ CredentialReceiveReady
  /\ IF credCh # <<>>
       THEN /\ credCh' = Tail(credCh)
            /\ \E e \in CredentialErrs : cbErr' = e
       ELSE /\ credCh' = credCh
            /\ cbErr' = "authCancelled"
  /\ rpc' = "cred_disable"
  /\ UNCHANGED <<ctlVars, epc, rdpc, frames, credChClosed, fpCh, fpChClosed,
                 connCh, connChClosed, remoteConn, flagVars, retryVars,
                 closeWait, ctxVars, connClosed, hist>>

CredDisable ==
  /\ rpc = "cred_disable"
  /\ disableRemoteReadTimeoutRetry
  /\ rpc' = IF cbErr = "-" THEN "hs_finish" ELSE "hs_fail"
  /\ UNCHANGED <<ctlVars, epc, rdpc, cbErr, frames, chanVars, remoteConn,
                 flagVars, closeWait, ctxVars, connClosed>>

\* ---- ssh.NewClientConn returns (ssh.go:411-415) -----------------------------
HandshakeFinish ==
  /\ rpc = "hs_finish"
  /\ \/ /\ ConnAlive
        /\ rpc' = "session"
        /\ cbErr' = cbErr
     \/ /\ rpc' = "hs_fail"
        /\ cbErr' = "handshake"
  /\ UNCHANGED <<ctlVars, epc, rdpc, frames, chanVars, remoteConn, flagVars,
                 retryVars, closeWait, ctxVars, connClosed, hist>>

\* dialRemote failed (after sshConn.Close() when the handshake failed,
\* ssh.go:412-415): ConnectFailed with the error text (ssh.go:472-477)
\* A remote task that returns from a failed dialRemote without a frame.
RemoteConnectFailed_Silent ==
  /\ rpc = "hs_fail"
  /\ connClosed' = (connClosed \/ rdpc # "none")
  /\ rpc' = "exit_signal"
  /\ UNCHANGED <<ctlVars, epc, rdpc, cbErr, frames, chanVars, remoteConn,
                 flagVars, retryVars, closeWait, ctxVars, hist>>

RemoteConnectFailed ==
  /\ rpc = "hs_fail"
  /\ SendManual("ConnectFailed", cbErr)
  /\ connClosed' = (connClosed \/ rdpc # "none")
  /\ rpc' = "exit_signal"
  /\ UNCHANGED <<ctlVars, epc, rdpc, cbErr, chanVars, remoteConn, flagVars,
                 retryVars, closeWait, ctxVars, hist>>

\* ---- NewSession, pipes, RequestPty, Shell (ssh.go:480-534) ------------------
SessionSetup ==
  /\ rpc = "session"
  /\ \/ /\ ConnAlive
        /\ rpc' = "clear"
        /\ UNCHANGED frames
     \/ /\ \E e \in SessionErrs : SendManual("ConnectFailed", e)
        /\ rpc' = "unwind"
  /\ UNCHANGED <<ctlVars, epc, rdpc, cbErr, chanVars, remoteConn, flagVars,
                 retryVars, closeWait, ctxVars, connClosed, hist>>

\* ---- clearConnInitialDeadline closure (ssh.go:417-425, 536) ----------------
ClearConnInitialDeadline ==
  /\ rpc = "clear"
  /\ remoteReadTimeoutRetry' = FALSE
  /\ remoteReadForceRetryNextTimeout' = TRUE
  /\ deadline' = "none"
  /\ hist' = [hist EXCEPT !.cleared = 1, !.sinceDisable = 0]
  /\ rpc' = "publish"
  /\ UNCHANGED <<ctlVars, epc, rdpc, cbErr, frames, chanVars, remoteConn,
                 flagVars, closeWait, ctxVars, connClosed>>

\* ---- d.remoteConnReceive <- sshRemoteConn{...} (ssh.go:538-546) -------------
PublishHandle ==
  /\ rpc = "publish"
  /\ Len(connCh) < 1
  /\ connCh' = Append(connCh, "handle")
  /\ hist' = [hist EXCEPT !.connSends = @ + 1,
                          !.chanMisuse = IF connChClosed THEN 1 ELSE @]
  /\ rpc' = "succ"
  /\ UNCHANGED <<ctlVars, epc, rdpc, cbErr, frames, credCh, credChClosed,
                 fpCh, fpChClosed, connChClosed, remoteConn, flagVars,
                 retryVars, closeWait, ctxVars, connClosed>>

\* ---- ConnectSucceed (ssh.go:548-552) ----------------------------------------
\* A remote task that ignores the result of SendManual(ConnectSucceed).
AfterConnectSucceed_Ignored(ok) == "spawn"

\* Where the remote task goes after SendManual(ConnectSucceed) returned.
AfterConnectSucceed(ok) == IF ok THEN "spawn" ELSE "unwind"

SendConnectSucceed ==
  /\ rpc = "succ"
  /\ \E ok \in BOOLEAN :
       /\ SendManual("ConnectSucceed", "-")
       /\ rpc' = AfterConnectSucceed(ok)
       /\ hist' = IF ok THEN [hist EXCEPT !.succeedOk = 1] ELSE hist
  /\ UNCHANGED <<ctlVars, epc, rdpc, cbErr, chanVars, remoteConn, flagVars,
                 retryVars, closeWait, ctxVars, connClosed>>

\* ---- d.remoteCloseWait.Add(1); go func() {...}() (ssh.go:556-558) ----------
SpawnStderrPump ==
  /\ rpc = "spawn"
  /\ closeWait' = closeWait + 1
  /\ epc' = "read"
  /\ rpc' = "out_read"
  /\ hist' = IF ctl \in {"close_cancel", "close_wait"}
               THEN [hist EXCEPT !.spawnInClose = 1] ELSE hist
  /\ UNCHANGED <<ctlVars, rdpc, cbErr, frames, chanVars, remoteConn, flagVars,
                 retryVars, ctxVars, connClosed>>

\* ---- stdout pump (ssh.go:577-588) -------------------------------------------
StdoutRead ==
  /\ rpc = "out_read"
  /\ \/ /\ ~connClosed
        /\ hist.outReads < MaxOut
        /\ Bump("outReads")
        /\ rpc' = "out_send"
     \/ /\ rpc' = "unwind"
        /\ UNCHANGED hist
  /\ UNCHANGED <<ctlVars, epc, rdpc, cbErr, frames, chanVars, remoteConn,
                 flagVars, retryVars, closeWait, ctxVars, connClosed>>

StdoutSend ==
  /\ rpc = "out_send"
  /\ \E ok \in BOOLEAN :
       /\ SendManual("RemoteStdOut", "-")
       /\ rpc' = IF ok THEN "out_read" ELSE "unwind"
  /\ UNCHANGED <<ctlVars, epc, rdpc, cbErr, chanVars, remoteConn, flagVars,
                 retryVars, closeWait, ctxVars, connClosed, hist>>

\* ---- deferred session.Wait(), session.Close(), conn.Close() (478-534) ------
RemoteUnwind ==
  /\ rpc = "unwind"
  /\ connClosed' = TRUE
  /\ rpc' = "exit_signal"
  /\ UNCHANGED <<ctlVars, epc, rdpc, cbErr, frames, chanVars, remoteConn,
                 flagVars, retryVars, closeWait, ctxVars, hist>>

\* ---- deferred exit of the remote task (ssh.go:430-435) ----------------------
ExitSignal ==
  /\ rpc = "exit_signal"
  /\ Signal("HeaderClose")
  /\ rpc' = "exit_close"
  /\ UNCHANGED <<ctlVars, epc, rdpc, cbErr, chanVars, remoteConn, flagVars,
                 retryVars, closeWait, ctxVars, connClosed, hist>>

\* A deferred exit function that leaves d.remoteConnReceive open.
ExitCloseConnCh_Skipped ==
  /\ rpc = "exit_close"
  /\ rpc' = "exit_cancel"
  /\ UNCHANGED <<ctlVars, epc, rdpc, cbErr, frames, chanVars, remoteConn,
                 flagVars, retryVars, closeWait, ctxVars, connClosed, hist>>

ExitCloseConnCh ==
  /\ rpc = "exit_close"
  /\ connChClosed' = TRUE
  /\ hist' = [hist EXCEPT !.connCloses = @ + 1,
                          !.chanMisuse = IF connChClosed THEN 1 ELSE @]
  /\ rpc' = "exit_cancel"
  /\ UNCHANGED <<ctlVars, epc, rdpc, cbErr, frames, credCh, credChClosed,
                 fpCh, fpChClosed, connCh, remoteConn, flagVars, retryVars,
                 closeWait, ctxVars, connClosed>>

ExitCancel ==
  /\ rpc = "exit_cancel"
  /\ BaseCtxCancel(hist)
  /\ rpc' = "exit_done"
  /\ UNCHANGED <<ctlVars, epc, rdpc, cbErr, frames, chanVars, remoteConn,
                 flagVars, retryVars, closeWait, connClosed>>

ExitDone ==
  /\ rpc = "exit_done"
  /\ closeWait' = closeWait - 1
  /\ rpc' = "done"
  /\ UNCHANGED <<ctlVars, epc, rdpc, cbErr, frames, chanVars, remoteConn,
                 flagVars, retryVars, ctxVars, connClosed, hist>>

\* ---- stderr pump (ssh.go:558-575) -------------------------------------------
StderrRead ==
  /\ epc = "read"
  /\ \/ /\ ~connClosed
        /\ hist.errReads < MaxErr
        /\ Bump("errReads")
        /\ epc' = "send"
        /\ UNCHANGED closeWait
     \/ /\ epc' = "done"
        /\ closeWait' = closeWait - 1
        /\ UNCHANGED hist
  /\ UNCHANGED <<ctlVars, rpc, rdpc, cbErr, frames, chanVars, remoteConn,
                 flagVars, retryVars, ctxVars, connClosed>>

StderrSend ==
  /\ epc = "send"
  /\ \E ok \in BOOLEAN :
       /\ SendManual("RemoteStdErr", "-")
       /\ epc' = IF ok THEN "read" ELSE "done"
       /\ closeWait' = IF ok THEN closeWait ELSE closeWait - 1
  /\ UNCHANGED <<ctlVars, rpc, rdpc, cbErr, chanVars, remoteConn, flagVars,
                 retryVars, ctxVars, connClosed, hist>>

\* ---- sshRemoteConnWrapper.Read (ssh.go:124-136) -----------------------------
\* s.Conn.Read returns a timeout: only while a read deadline is armed.
ConnReadTimeout ==
  /\ rdpc = "read"
  /\ deadline = "armed"
  /\ ~connClosed
  /\ rdpc' = "hook"
  /\ UNCHANGED <<ctlVars, rpc, epc, cbErr, frames, chanVars, remoteConn,
                 flagVars, retryVars, closeWait, ctxVars, connClosed, hist>>

\* s.Conn.Read returns an error that is no timeout: Read returns it.
ConnReadError ==
  /\ rdpc = "read"
  /\ rdpc' = "failed"
  /\ UNCHANGED <<ctlVars, rpc, epc, cbErr, frames, chanVars, remoteConn,
                 flagVars, retryVars, closeWait, ctxVars, connClosed, hist>>

\* ---- requestTimeoutRetry (ssh.go:389-403) -----------------------------------
\* A hook that looks at the enabled flag only.
RetryGranted_EnabledOnly == remoteReadTimeoutRetry

\* The hook's return value.
RetryGranted == remoteReadTimeoutRetry \/ remoteReadForceRetryNextTimeout

\* A hook that never consumes the force-next latch.
ForceNextAfterRetry_Kept == remoteReadForceRetryNextTimeout

\* remoteReadForceRetryNextTimeout once the hook has granted a retry.
ForceNextAfterRetry ==
  IF ~remoteReadTimeoutRetry THEN FALSE ELSE remoteReadForceRetryNextTimeout

RequestTimeoutRetry ==
  /\ rdpc = "hook"
  /\ IF RetryGranted
       THEN /\ remoteReadForceRetryNextTimeout' = ForceNextAfterRetry
            /\ deadline' = "armed"
            /\ rdpc' = "read"
            /\ hist' = [hist EXCEPT
                 !.retriesAfterClear = IF hist.cleared = 1 THEN @ + 1 ELSE @,
                 !.sinceDisable = IF remoteReadTimeoutRetry THEN @ ELSE @ + 1]
       ELSE /\ rdpc' = "failed"
            /\ hist' = IF hist.cleared = 1
                         THEN [hist EXCEPT !.refusalsAfterClear = 1]
                         ELSE hist
            /\ UNCHANGED <<remoteReadForceRetryNextTimeout, deadline>>
  /\ UNCHANGED <<ctlVars, rpc, epc, cbErr, frames, chanVars, remoteConn,
                 flagVars, remoteReadTimeoutRetry, closeWait, ctxVars,
                 connClosed>>

\* ---- Bootup (ssh.go:217-260) ------------------------------------------------
\* Decoding failures of the bootup payload before the auth method byte.
BootupParseErrs == {"badUserName", "badAddress"}

\* Values of the auth method byte the model feeds.
AuthBytes == 0..3

\* buildAuthMethod (ssh.go:262-327): the byte selects a known method.
buildAuthMethodOk(methodType) == methodType \in AuthMethods

Bootup ==
  /\ ctl = "idle"
  /\ booted = "no"
  /\ \/ \E e \in BootupParseErrs :
          /\ booted' = "failed"
          /\ localErr' = e
          /\ UNCHANGED <<authMethod, closeWait, rpc>>
     \/ \E b \in AuthBytes :
          IF buildAuthMethodOk(b)
            THEN /\ booted' = "ok"
                 /\ authMethod' = b
                 /\ localErr' = "-"
                 /\ closeWait' = closeWait + 1
                 /\ rpc' = "hook"
            ELSE /\ booted' = "failed"
                 /\ localErr' = "badAuthMethod"
                 /\ UNCHANGED <<authMethod, closeWait, rpc>>
  /\ UNCHANGED <<ctl, ctlOp, ops, epc, rdpc, cbErr, frames, chanVars,
                 remoteConn, flagVars, retryVars, ctxVars, connClosed, hist>>

\* ---- getRemote (ssh.go:591-603) ---------------------------------------------
isValid(conn) == conn = "handle"

\* getRemote does not block: the handle is cached, or connCh holds a value or
\* is closed.
GetRemoteReady == isValid(remoteConn) \/ connCh # <<>> \/ connChClosed

\* getRemote returns a handle (and no error).
GetRemoteOk == isValid(remoteConn) \/ connCh # <<>>

\* A getRemote that returns the received handle without keeping it.
getRemote_NoCache ==
  /\ GetRemoteReady
  /\ IF ~isValid(remoteConn) /\ connCh # <<>>
       THEN /\ connCh' = Tail(connCh)
            /\ UNCHANGED remoteConn
       ELSE UNCHANGED <<remoteConn, connCh>>

getRemote ==
  /\ GetRemoteReady
  /\ IF ~isValid(remoteConn) /\ connCh # <<>>
       THEN /\ remoteConn' = Head(connCh)
            /\ connCh' = Tail(connCh)
       ELSE UNCHANGED <<remoteConn, connCh>>

\* ---- local: StdIn and Resize (ssh.go:612-658) -------------------------------
LocalStdInOrResize ==
  /\ ctl = "idle"
  /\ booted = "ok"
  /\ ops < MaxOps
  /\ \E m \in {"StdIn", "Resize"} : ctlOp' = m
  /\ ctl' = "local_getRemote"
  /\ ops' = ops + 1
  /\ UNCHANGED <<booted, authMethod, localErr, rpc, epc, rdpc, cbErr, frames,
                 chanVars, remoteConn, flagVars, retryVars, closeWait, ctxVars,
                 connClosed, hist>>

\* What happens to the frame once getRemote returned a handle: the payload
\* cannot be read, the write / WindowChange is done, or (StdIn only) the
\* write fails and closer() is called.
ApplyOutcomes(m) ==
  IF m = "StdIn" THEN {"readErr", "done", "writeFailed"}
                 ELSE {"readErr", "done"}

\* The control task returns from getRemote inside local (ssh.go:613, 634, 677)
LocalGetRemote ==
  /\ ctl = "local_getRemote"
  /\ getRemote
  /\ IF ~GetRemoteOk
       THEN /\ localErr' = IF ctlOp = "RejectFp" THEN "-" ELSE "unavailable"
            /\ UNCHANGED <<connClosed, hist>>
       ELSE IF ctlOp = "RejectFp"
         THEN /\ localErr' = "-"
              /\ connClosed' = TRUE
              /\ UNCHANGED hist
         ELSE \E o \in ApplyOutcomes(ctlOp) :
                /\ localErr' = IF o = "readErr" THEN "read" ELSE "-"
                /\ connClosed' = (connClosed \/ o = "writeFailed")
                /\ hist' = IF o = "readErr" THEN hist
                           ELSE [hist EXCEPT !.writes = 1]
  /\ ctl' = "idle"
  /\ ctlOp' = "-"
  /\ UNCHANGED <<booted, authMethod, ops, rpc, epc, rdpc, cbErr, frames,
                 credCh, credChClosed, fpCh, fpChClosed, connChClosed,
                 flagVars, retryVars, closeWait, ctxVars>>

\* ---- local: RespondFingerprint (ssh.go:660-685) -----------------------------
\* A handler without the one-shot check.
FingerprintAccepted_Unchecked == TRUE

\* The handler goes on past the one-shot check.
FingerprintAccepted == ~fingerprintProcessed

LocalRespondFingerprint ==
  /\ ctl = "idle"
  /\ booted = "ok"
  /\ ops < MaxOps
  /\ ops' = ops + 1
  /\ \E b \in {"accept", "reject", "readErr"} :
       IF ~FingerprintAccepted
         THEN /\ localErr' = "unexpectedFingerprint"
              /\ UNCHANGED <<ctl, ctlOp, fpCh, fingerprintProcessed, hist>>
         ELSE /\ fingerprintProcessed' = TRUE
              /\ IF b = "readErr"
                   THEN /\ localErr' = "read"
                        /\ UNCHANGED <<ctl, ctlOp, fpCh, hist>>
                   ELSE IF fpChClosed
                     THEN /\ ctl' = "panicked"
                          /\ hist' = [hist EXCEPT !.chanMisuse = 1]
                          /\ UNCHANGED <<ctlOp, fpCh, localErr>>
                     ELSE IF Len(fpCh) >= 1
                       THEN /\ ctl' = "blocked_send"
                            /\ UNCHANGED <<ctlOp, fpCh, localErr, hist>>
                       ELSE /\ fpCh' = Append(fpCh, b = "accept")
                            /\ hist' =
                                 [hist EXCEPT
                                    !.fpSends = @ + 1,
                                    !.fpRejects =
                                       IF b = "reject" THEN 1 ELSE @]
                            /\ localErr' = "-"
                            /\ ctl' = IF b = "reject"
                                        THEN "local_getRemote" ELSE "idle"
                            /\ ctlOp' = IF b = "reject" THEN "RejectFp" ELSE "-"
  /\ UNCHANGED <<booted, authMethod, rpc, epc, rdpc, cbErr, frames, credCh,
                 credChClosed, fpChClosed, connCh, connChClosed, remoteConn,
                 credentialProcessed, credentialReceiveClosed,
                 fingerprintVerifyResultReceiveClosed, retryVars, closeWait,
                 ctxVars, connClosed>>

\* ---- local: RespondCredential (ssh.go:687-721) ------------------------------
\* A handler without the one-shot check.
CredentialAccepted_Unchecked == TRUE

\* The handler goes on past the one-shot check.
CredentialAccepted == ~credentialProcessed

\* The payload of a frame as the reader hands it out: the lengths of the
\* chunks r.Buffered() returns one after the other; r.Remains() is their sum.
Payloads ==
  { <<>>,
    <<1>>,
    <<sshCredentialMaxSize>>,
    <<sshCredentialMaxSize - 1, 1>>,
    <<sshCredentialMaxSize + 1>>,
    <<1, sshCredentialMaxSize>>,
    <<sshCredentialMaxSize, 1>>,
    <<sshCredentialMaxSize - 1, 1, 1>> }

RECURSIVE Remains(_)
Remains(chunks) ==
  IF chunks = <<>> THEN 0 ELSE Head(chunks) + Remains(Tail(chunks))

\* lines 696-700
CredentialBufSize(remains) ==
  IF remains > sshCredentialMaxSize THEN sshCredentialMaxSize ELSE remains

\* A read loop without the size check.
CredentialTooLarge_Unchecked(total, size) == FALSE

\* line 711
CredentialTooLarge(total, size) == total > size

\* lines 705-716: the read loop from chunk i on, with total bytes read so far;
\* the read of chunk errAt fails (errAt = 0: no read fails).
RECURSIVE ReadCredential(_, _, _, _, _)
ReadCredential(chunks, errAt, i, total, size) ==
  IF i > Len(chunks)
    THEN "ok"
    ELSE IF errAt = i
      THEN "read"
      ELSE IF CredentialTooLarge(total + chunks[i], size)
        THEN "tooLarge"
        ELSE ReadCredential(chunks, errAt, i + 1, total + chunks[i], size)

\* A frame of more than sshCredentialMaxSize bytes, all of them readable.
OversizeFrame(chunks, errAt) ==
  Remains(chunks) > sshCredentialMaxSize /\ errAt = 0

\* The frames the model feeds: a payload and the read that fails, if any.
CredentialFrames ==
  UNION {{<<chunks, errAt>> : errAt \in 0..Len(chunks)} : chunks \in Payloads}

\* What the read loop makes of each frame, and whether the frame is oversize.
CredentialReads ==
  { <<ReadCredential(f[1], f[2], 1, 0, CredentialBufSize(Remains(f[1]))),
      OversizeFrame(f[1], f[2])>> : f \in CredentialFrames }

LocalRespondCredential ==
  /\ ctl = "idle"
  /\ booted = "ok"
  /\ ops < MaxOps
  /\ ops' = ops + 1
  /\ \E o \in CredentialReads :
       LET b == o[1]
           h == IF o[2] THEN [hist EXCEPT !.oversize = @ + 1] ELSE hist
       IN
       IF ~CredentialAccepted
         THEN /\ localErr' = "unexpectedCredential"
              /\ hist' = h
              /\ UNCHANGED <<ctl, credCh, credentialProcessed>>
         ELSE /\ credentialProcessed' = TRUE
              /\ IF b # "ok"
                   THEN /\ localErr' = b
                        /\ hist' = h
                        /\ UNCHANGED <<ctl, credCh>>
                   ELSE IF credChClosed
                     THEN /\ ctl' = "panicked"
                          /\ hist' = [h EXCEPT !.chanMisuse = 1]
                          /\ UNCHANGED <<credCh, localErr>>
                     ELSE IF Len(credCh) >= 1
                       THEN /\ ctl' = "blocked_send"
                            /\ hist' = h
                            /\ UNCHANGED <<credCh, localErr>>
                       ELSE /\ credCh' = Append(credCh, "credential")
                            /\ hist' = [h EXCEPT !.credSends = @ + 1]
                            /\ localErr' = "-"
                            /\ ctl' = "idle"
  /\ UNCHANGED <<booted, authMethod, ctlOp, rpc, epc, rdpc, cbErr, frames,
                 credChClosed, fpCh, fpChClosed, connCh, connChClosed,
                 remoteConn, credentialReceiveClosed, fingerprintProcessed,
                 fingerprintVerifyResultReceiveClosed, retryVars, closeWait,
                 ctxVars, connClosed>>

\* ---- local: any other marker (ssh.go:723-725) -------------------------------
LocalUnknownSignal ==
  /\ ctl = "idle"
  /\ booted = "ok"
  /\ ops < MaxOps
  /\ ops' = ops + 1
  /\ localErr' = "unknownSignal"
  /\ UNCHANGED <<booted, authMethod, ctl, ctlOp, rpc, epc, rdpc, cbErr,
                 frames, chanVars, remoteConn, flagVars, retryVars, closeWait,
                 ctxVars, connClosed, hist>>

\* ---- Close (ssh.go:728-753) -------------------------------------------------
\* lines 729-736: the one-shot flags, close(d.credentialReceive)
CloseCredential ==
  /\ ctl = "idle"
  /\ ops < MaxOps
  /\ ops' = ops + 1
  /\ credentialProcessed' = TRUE
  /\ fingerprintProcessed' = TRUE
  /\ IF ~credentialReceiveClosed
       THEN /\ credChClosed' = TRUE
            /\ credentialReceiveClosed' = TRUE
            /\ hist' = [hist EXCEPT !.credCloses = @ + 1,
                                    !.chanMisuse =
                                       IF credChClosed THEN 1 ELSE @]
       ELSE UNCHANGED <<credChClosed, credentialReceiveClosed, hist>>
  /\ ctl' = "close_fp"
  /\ UNCHANGED <<booted, authMethod, ctlOp, localErr, rpc, epc, rdpc, cbErr,
                 frames, credCh, fpCh, fpChClosed, connCh, connChClosed,
                 remoteConn, fingerprintVerifyResultReceiveClosed, retryVars,
                 closeWait, ctxVars, connClosed>>

\* lines 738-742: close(d.fingerprintVerifyResultReceive)
CloseFingerprint ==
  /\ ctl = "close_fp"
  /\ IF ~fingerprintVerifyResultReceiveClosed
       THEN /\ fpChClosed' = TRUE
            /\ fingerprintVerifyResultReceiveClosed' = TRUE
            /\ hist' = [hist EXCEPT !.fpCloses = @ + 1,
                                    !.chanMisuse =
                                       IF fpChClosed THEN 1 ELSE @]
       ELSE UNCHANGED <<fpChClosed, fingerprintVerifyResultReceiveClosed,
                        hist>>
  /\ ctl' = "close_getRemote"
  /\ UNCHANGED <<booted, authMethod, ctlOp, ops, localErr, rpc, epc, rdpc,
                 cbErr, frames, credCh, credChClosed, fpCh, connCh,
                 connChClosed, remoteConn, credentialProcessed,
                 credentialReceiveClosed, fingerprintProcessed, retryVars,
                 closeWait, ctxVars, connClosed>>

\* lines 744-747: getRemote, then closer() when a handle came back
CloseGetRemote ==
  /\ ctl = "close_getRemote"
  /\ getRemote
  /\ connClosed' = (connClosed \/ GetRemoteOk)
  /\ ctl' = "close_cancel"
  /\ UNCHANGED <<booted, authMethod, ctlOp, ops, localErr, rpc, epc, rdpc,
                 cbErr, frames, credCh, credChClosed, fpCh, fpChClosed,
                 connChClosed, flagVars, retryVars, closeWait, ctxVars, hist>>

\* line 749: d.baseCtxCancel()
CloseCancel ==
  /\ ctl = "close_cancel"
  /\ BaseCtxCancel(hist)
  /\ ctl' = "close_wait"
  /\ UNCHANGED <<booted, authMethod, ctlOp, ops, localErr, rpc, epc, rdpc,
                 cbErr, frames, chanVars, remoteConn, flagVars, retryVars,
                 closeWait, connClosed>>

\* A Close that does not join the remote task.
WaitGroupDone_NoJoin == TRUE

\* line 750: d.remoteCloseWait.Wait() returns
WaitGroupDone == closeWait = 0

\* lines 750-752
CloseReturn ==
  /\ ctl = "close_wait"
  /\ WaitGroupDone
  /\ ctl' = "idle"
  /\ localErr' = "-"
  /\ Bump("closeReturns")
  /\ UNCHANGED <<booted, authMethod, ctlOp, ops, rpc, epc, rdpc, cbErr,
                 frames, chanVars, remoteConn, flagVars, retryVars, closeWait,
                 ctxVars, connClosed>>

\* ---- Release (ssh.go:755-758) -----------------------------------------------
Release ==
  /\ ctl = "idle"
  /\ ops < MaxOps
  /\ ops' = ops + 1
  /\ BaseCtxCancel(hist)
  /\ localErr' = "-"
  /\ UNCHANGED <<booted, authMethod, ctl, ctlOp, rpc, epc, rdpc, cbErr,
                 frames, chanVars, remoteConn, flagVars, retryVars, closeWait,
                 connClosed>>

\* ---- the session -------------------------------------------------------------
ControlTask ==
  \/ Bootup
  \/ LocalStdInOrResize
  \/ LocalGetRemote
  \/ LocalRespondFingerprint
  \/ LocalRespondCredential
  \/ LocalUnknownSignal
  \/ CloseCredential
  \/ CloseFingerprint
  \/ CloseGetRemote
  \/ CloseCancel
  \/ CloseReturn
  \/ Release

RemoteTask ==
  \/ RemoteHookOutput
  \/ RemoteHookDone
  \/ DialRemote
  \/ HandshakeHostKey
  \/ FpEnable
  \/ FpSend
  \/ FpWait
  \/ FpDisable
  \/ HandshakeAuth
  \/ CredEnable
  \/ CredSend
  \/ CredWait
  \/ CredDisable
  \/ HandshakeFinish
  \/ RemoteConnectFailed
  \/ SessionSetup
  \/ ClearConnInitialDeadline
  \/ PublishHandle
  \/ SendConnectSucceed
  \/ SpawnStderrPump
  \/ StdoutRead
  \/ StdoutSend
  \/ RemoteUnwind
  \/ ExitSignal
  \/ ExitCloseConnCh
  \/ ExitCancel
  \/ ExitDone

StderrPump == StderrRead \/ StderrSend

ReadLoop == ConnReadTimeout \/ ConnReadError \/ RequestTimeoutRetry

Next == ControlTask \/ RemoteTask \/ StderrPump \/ ReadLoop

Spec == Init /\ [][Next]_vars

\* Fairness of the scheduler: a task that can take a step eventually takes
\* one.  The control task is only obliged to finish a call it has started.
CloseSteps ==
  CloseFingerprint \/ CloseGetRemote \/ CloseCancel \/ CloseReturn

FairSpec ==
  /\ Spec
  /\ WF_vars(RemoteTask)
  /\ WF_vars(StderrPump)
  /\ WF_vars(RequestTimeoutRetry)
  /\ WF_vars(CloseSteps)
  /\ WF_vars(LocalGetRemote)

\* ==== properties ==============================================================

IsPumpFrame(f) == f.m \in {"RemoteStdOut", "RemoteStdErr"}

\* C1: HeaderClose is signalled exactly once by the exiting remote task and no
\* frame of any kind is handed to the responder after it.
C1_HeaderCloseLast ==
  /\ CountFrames("HeaderClose") <= 1
  /\ rpc \in {"exit_close", "exit_cancel", "exit_done", "done"}
       => CountFrames("HeaderClose") = 1
  /\ \A i \in 1..Len(frames) :
       frames[i].m = "HeaderClose" => i = Len(frames)

\* C2: at most one value is ever sent on credCh and at most one on fpCh; a
\* RespondCredential / RespondFingerprint frame handled when the one-shot flag
\* is already set returns the 'unexpected ... respond' error and sends nothing.
C2_AtMostOneSend ==
  /\ [](hist.credSends <= 1 /\ hist.fpSends <= 1)
  /\ [][(LocalRespondCredential /\ credentialProcessed)
          => (localErr' = "unexpectedCredential" /\ credCh' = credCh
              /\ hist'.credSends = hist.credSends)]_vars
  /\ [][(LocalRespondFingerprint /\ fingerprintProcessed)
          => (localErr' = "unexpectedFingerprint" /\ fpCh' = fpCh
              /\ hist'.fpSends = hist.fpSends)]_vars

\* a second RespondCredential frame has been refused after the first was sent
C2_Witness ==
  /\ hist.credSends = 1
  /\ localErr = "unexpectedCredential"

\* C3: when Bootup spawned the remote task, at the moment Close has returned
\* the remote task has finished its deferred exit and the stderr pump, if it
\* was spawned, has exited.
C3_CloseJoinsRemote ==
  (hist.closeReturns >= 1 /\ booted = "ok")
    => (rpc = "done" /\ epc \in {"none", "done"})

\* Close returned, and the stderr pump was spawned while Close was past its
\* getRemote
C3_Witness ==
  /\ hist.closeReturns >= 1
  /\ hist.spawnInClose = 1
  /\ epc = "done"

\* The last two frames are ConnectFailed carrying e, then HeaderClose.
EndsFailedThenClose(e) ==
  /\ Len(frames) >= 2
  /\ frames[Len(frames) - 1] = Frame("ConnectFailed", e)
  /\ frames[Len(frames)].m = "HeaderClose"

\* Close has closed credCh while the credential callback is blocked on it and
\* the client has sent no credential.
CancelledWhileWaiting ==
  /\ ctl = "close_fp"
  /\ rpc = "cred_wait"
  /\ credCh = <<>>
  /\ credChClosed

\* C4: when Close is called while the credential callback is blocked on
\* credCh with no client response, the callback returns 'authentication has
\* been cancelled', the remote task emits ConnectFailed with that error and
\* then HeaderClose, and Close returns.
C4_CredentialCancellation ==
  CancelledWhileWaiting
    ~> (hist.closeReturns >= 1 /\ rpc = "done"
        /\ EndsFailedThenClose("authCancelled"))

\* the cancelled session after Close returned
C4_Witness ==
  /\ hist.closeReturns >= 1
  /\ authMethod # SSHAuthMethodNone
  /\ EndsFailedThenClose("authCancelled")

\* C5: a Close called while the remote task is in the BEFORE_CONNECTING hook
\* or in the dial does not wait for the hook or dial to end by itself: it is
\* never blocked there while ctx is still not cancelled.
C5_CloseAbortsDial ==
  (ctl = "close_getRemote" /\ rpc \in {"hook", "dial"} /\ ~ctxCancelled)
    => GetRemoteReady

\* C6 as stated: after clearConnInitialDeadline has run, no invocation of
\* requestTimeoutRetry returns true.
C6_NoRetryAfterClear == hist.retriesAfterClear = 0

\* C6 as amended: after clearConnInitialDeadline has run, at most one
\* invocation of requestTimeoutRetry returns true (the one consuming the
\* force-next latch the closure sets); once it has, both flags are false, so
\* every later invocation returns false, and a refused timeout surfaces from
\* the wrapper's Read.
C6_AtMostOneRetryAfterClear ==
  /\ hist.retriesAfterClear <= 1
  /\ (hist.cleared = 1 /\ hist.retriesAfterClear = 1) => ~RetryGranted
  /\ hist.cleared = 1 => ~remoteReadTimeoutRetry
  /\ hist.refusalsAfterClear = 1 => rdpc = "failed"

\* after the closure ran, one timeout was retried and the next one surfaced
C6_Witness ==
  /\ hist.retriesAfterClear = 1
  /\ hist.refusalsAfterClear = 1

\* C7: the Local handler pushes a response onto credCh / fpCh only when the
\* corresponding request frame has already been emitted.
C7_RequestBeforeAccept ==
  /\ [][hist'.credSends > hist.credSends
          => Sent("ConnectRequestCredential")]_vars
  /\ [][hist'.fpSends > hist.fpSends
          => Sent("ConnectVerifyFingerprint")]_vars

\* The session shows no sign of a shell.
NoShell ==
  /\ ~Sent("ConnectSucceed")
  /\ ~Sent("RemoteStdOut")
  /\ ~Sent("RemoteStdErr")
  /\ connCh = <<>>
  /\ ~isValid(remoteConn)

\* C8: once a reject has been pushed onto fpCh the session never enters the
\* shell, and the remote task exits with ConnectFailed carrying 'server
\* Fingerprint has been refused' followed by HeaderClose.
C8_RejectTerminates ==
  hist.fpRejects = 1
    => /\ NoShell
       /\ rpc = "done" => EndsFailedThenClose("refused")

\* C9: every RemoteStdOut / RemoteStdErr frame is preceded by a ConnectSucceed
\* frame whose send succeeded, and when that send failed no pump runs.
C9_SucceedBeforePumps ==
  /\ \A i \in 1..Len(frames) :
       IsPumpFrame(frames[i])
         => /\ hist.succeedOk = 1
            /\ \E j \in 1..(i - 1) : frames[j].m = "ConnectSucceed"
  /\ hist.succeedOk = 0
       => (epc = "none" /\ rpc \notin {"spawn", "out_read", "out_send"})

\* both pumps have emitted a frame
C9_Witness ==
  /\ Sent("RemoteStdOut")
  /\ Sent("RemoteStdErr")

\* The fields of the session that Close and Release act on.
sessionFields ==
  <<flagVars, chanVars, remoteConn, ctxVars, connClosed>>

\* C10: the cancel function of ctx runs at most once over any number of
\* Close and Release calls and each channel is closed at most once; a Close
\* called after a Close has returned never blocks and leaves the flags, the
\* channels, the cached handle and ctx as they were.
C10_CloseIdempotent ==
  /\ [](/\ hist.cancelRuns <= 1
        /\ hist.credCloses <= 1
        /\ hist.fpCloses <= 1
        /\ (hist.closeReturns >= 1 /\ ctl = "close_getRemote")
             => GetRemoteReady
        /\ (hist.closeReturns >= 1 /\ ctl = "close_wait") => WaitGroupDone)
  /\ [][(hist.closeReturns >= 1 /\ (CloseCredential \/ CloseSteps \/ Release))
          => UNCHANGED sessionFields]_vars

\* a second Close has returned
C10_Witness == hist.closeReturns >= 2

\* ---- C11 -------------------------------------------------------------------
\* The remote task has left its connect phase behind: session.Shell() returned
\* without error and the initial deadline was cleared.
ShellStarted == hist.cleared = 1

\* The remote task has run close(d.remoteConnReceive) of its deferred exit.
RemotePastClose == rpc \in {"exit_cancel", "exit_done", "done"}

\* C11: the connection-handle channel carries at most one value and is closed
\* exactly once, by the remote task at its exit, on every exit path; the handle
\* is sent only after the shell was started and never after the close.
C11_ConnChOneSendOneClose ==
  /\ hist.connSends <= 1
  /\ hist.connCloses <= 1
  /\ Len(connCh) <= hist.connSends
  /\ hist.connSends = 1 => ShellStarted
  /\ connChClosed <=> RemotePastClose
  /\ RemotePastClose => hist.connCloses = 1
  /\ rpc = "publish" => ~connChClosed /\ hist.connSends = 0

\* A session that published its handle and has since exited.
C11_Witness ==
  /\ rpc = "done"
  /\ hist.connSends = 1
  /\ hist.connCloses = 1
  /\ connChClosed
\* ---- C12 -------------------------------------------------------------------
\* A step in which the control task handles a RespondCredential frame whose
\* payload is larger than sshCredentialMaxSize.
OversizeStep == hist'.oversize = hist.oversize + 1

\* C12: a RespondCredential frame whose payload totals more than 4096 bytes
\* puts nothing on the credential channel (no prefix of it either), so a
\* callback waiting on the channel stays waiting, and the handler returns
\* 'credential was too large' (a frame the one-shot check of C2 turns away
\* returns that check's error instead).
C12_OversizeRejected ==
  [][OversizeStep =>
       /\ credCh' = credCh
       /\ hist'.credSends = hist.credSends
       /\ rpc' = rpc
       /\ ctl' = "idle"
       /\ CredentialAccepted => localErr' = "tooLarge"
       /\ ~CredentialAccepted => localErr' = "unexpectedCredential"]_vars

\* The callback still waits after the oversize frame was turned away.
C12_Witness ==
  /\ hist.oversize = 1
  /\ localErr = "tooLarge"
  /\ rpc = "cred_wait"
  /\ credCh = <<>>
  /\ ~credChClosed
  /\ hist.credSends = 0
\* ---- C13 -------------------------------------------------------------------
\* C13: in every state after clearConnInitialDeadline has run the connection
\* carries no read deadline, whatever the interleaving of the closure with a
\* wrapper Read whose timeout was raised before it and whose hook runs after
\* it; no read of the live shell ends by a read timeout.
C13_NoDeadlineAfterClear ==
  hist.cleared = 1 => (deadline = "none" /\ hist.refusalsAfterClear = 0)
\* ---- C14 -------------------------------------------------------------------
\* A step in which the requestTimeoutRetry hook runs for a timed-out read.
HookStep == rdpc = "hook" /\ rdpc' # "hook"

\* C14: the hook follows the two flags: with the enabled flag set the timeout
\* is retried, the deadline reset and the force-next latch left as it is; after
\* a disable (or the clear closure) with no enable, disable or clear since,
\* exactly one timeout is retried, consuming the latch, and the next one is
\* refused and surfaces; with both flags false the hook refuses and touches
\* neither the deadline nor the flags.
C14_HookFollowsLatch ==
  /\ [][(HookStep /\ remoteReadTimeoutRetry) =>
          /\ rdpc' = "read"
          /\ deadline' = "armed"
          /\ UNCHANGED <<remoteReadTimeoutRetry,
                         remoteReadForceRetryNextTimeout>>]_vars
  /\ [][(HookStep /\ hist.sinceDisable = 0) =>
          /\ rdpc' = "read"
          /\ deadline' = "armed"
          /\ remoteReadForceRetryNextTimeout
          /\ ~remoteReadForceRetryNextTimeout'
          /\ hist'.sinceDisable = 1]_vars
  /\ [][(HookStep /\ hist.sinceDisable = 1) =>
          /\ rdpc' = "failed"
          /\ hist'.sinceDisable = 1]_vars
  /\ [][(HookStep /\ ~remoteReadTimeoutRetry
           /\ ~remoteReadForceRetryNextTimeout) =>
          /\ rdpc' = "failed"
          /\ UNCHANGED <<deadline, remoteReadTimeoutRetry,
                         remoteReadForceRetryNextTimeout>>]_vars
  /\ [][hist'.sinceDisable \in {-1, 0, 1}]_vars

\* After a callback's disable one timeout was retried and the next surfaced,
\* with the handshake still under way.
C14_Witness ==
  /\ hist.sinceDisable = 1
  /\ hist.cleared = 0
  /\ rdpc = "failed"
\* ---- C15 -------------------------------------------------------------------
\* The remote task is inside a callback, between its enable and its deferred
\* disable: sending the request frame or waiting on the channel.
InCallback == rpc \in {"fp_send", "fp_wait", "cred_send", "cred_wait"}

\* The remote task is at the deferred disable of a callback that returns.
AtCallbackReturn == rpc \in {"fp_disable", "cred_disable"}

\* C15: while a credential or fingerprint callback waits on its channel the
\* enabled flag is true, so a read timeout in that interval is retried; every
\* way out of a callback (value received, channel closed, send failure, key
\* parse failure) runs the disable, after which the enabled flag is false and
\* the force-next latch is true.
C15_EnableDisableWrapsWait ==
  /\ [](InCallback => remoteReadTimeoutRetry)
  /\ [][(HookStep /\ InCallback) => rdpc' = "read"]_vars
  /\ [][(InCallback /\ ~InCallback') => AtCallbackReturn']_vars
  /\ [][(AtCallbackReturn /\ ~AtCallbackReturn') =>
          (~remoteReadTimeoutRetry' /\ remoteReadForceRetryNextTimeout')]_vars

\* The public-key callback has returned on a key that does not parse.
C15_Witness ==
  /\ rpc = "hs_fail"
  /\ cbErr = "keyParse"
  /\ ~remoteReadTimeoutRetry
  /\ remoteReadForceRetryNextTimeout
\* ---- C16 -------------------------------------------------------------------
\* The remote task is in its deferred exit function or past it.
RemoteExiting ==
  rpc \in {"exit_signal", "exit_close", "exit_cancel", "exit_done", "done"}

\* C16: a remote task that fails before its shell is started sends exactly one
\* ConnectFailed, and the only frame after it is the HeaderClose of the exit;
\* such a session has no ConnectSucceed and publishes no handle, so no session
\* carries both ConnectFailed and ConnectSucceed.
C16_ConnectFailedOnce ==
  /\ CountFrames("ConnectFailed") <= 1
  /\ (RemoteExiting /\ ~ShellStarted) => CountFrames("ConnectFailed") = 1
  /\ Sent("ConnectFailed") =>
       /\ ~ShellStarted
       /\ ~Sent("ConnectSucceed")
       /\ hist.connSends = 0
       /\ connCh = <<>>
       /\ ~isValid(remoteConn)
       /\ \/ frames[Len(frames)].m = "ConnectFailed"
          \/ /\ frames[Len(frames)].m = "HeaderClose"
             /\ frames[Len(frames) - 1].m = "ConnectFailed"
       /\ rpc \in {"exit_close", "exit_cancel", "exit_done", "done"}
            => frames[Len(frames)].m = "HeaderClose"

\* The PTY request failed and the remote task has exited.
C16_Witness ==
  /\ rpc = "done"
  /\ EndsFailedThenClose("RequestPty")
  /\ CountFrames("ConnectFailed") = 1
\* ---- C17 -------------------------------------------------------------------
\* A step in which getRemote returns to the handler of a StdIn or Resize frame.
GetRemoteReturns ==
  /\ ctl = "local_getRemote"
  /\ ctlOp \in {"StdIn", "Resize"}
  /\ ctl' = "idle"

\* C17: getRemote returns to a StdIn or Resize handler only once the remote
\* task has published the handle or closed the channel at its exit; when the
\* task exited without publishing, the handler returns 'remote SSH connection
\* is unavailable' and does no write or WindowChange; when a handle was
\* published, getRemote returns it, now and on every later call, also with
\* the channel closed; a cached handle is never replaced, and nothing is
\* written without one.
C17_GetRemoteHandsOutValidHandle ==
  /\ [][GetRemoteReturns => (hist.connSends = 1 \/ connChClosed)]_vars
  /\ [][(GetRemoteReturns /\ hist.connSends = 0) =>
          /\ localErr' = "unavailable"
          /\ hist'.writes = hist.writes
          /\ ~isValid(remoteConn')]_vars
  /\ [][(GetRemoteReturns /\ hist.connSends = 1) =>
          /\ localErr' # "unavailable"
          /\ isValid(remoteConn')]_vars
  /\ [][(ctl = "close_getRemote" /\ ctl' # ctl /\ hist.connSends = 1) =>
          (isValid(remoteConn') /\ connClosed')]_vars
  /\ [][isValid(remoteConn) => remoteConn' = remoteConn]_vars
  /\ [](hist.writes = 1 => isValid(remoteConn))

\* An earlier frame was written through the handle, the remote task has since
\* closed the channel, and a later StdIn frame calls getRemote.
C17_Witness ==
  /\ ctl = "local_getRemote"
  /\ ctlOp = "StdIn"
  /\ isValid(remoteConn)
  /\ hist.writes = 1
  /\ connCh = <<>>
  /\ connChClosed
\* ---- C18 -------------------------------------------------------------------
\* C18: no value is sent on a closed credential, fingerprint or handle
\* channel, none of the three is closed twice, and no send on them blocks:
\* each holds at most the one value its buffer has room for, and the control
\* task neither panics in nor hangs on a send.
C18_NoChannelMisuse ==
  /\ hist.chanMisuse = 0
  /\ ctl \notin {"panicked", "blocked_send"}
  /\ hist.credCloses <= 1 /\ hist.fpCloses <= 1 /\ hist.connCloses <= 1
  /\ Len(credCh) <= 1 /\ Len(fpCh) <= 1 /\ Len(connCh) <= 1
  /\ rpc = "publish" => (connCh = <<>> /\ ~connChClosed)

\* The fingerprint answer was sent, and later Close closed the channels and
\* returned after the remote task closed the handle channel.
C18_Witness ==
  /\ hist.fpSends = 1
  /\ hist.fpCloses = 1
  /\ hist.credCloses = 1
  /\ hist.connCloses = 1
  /\ hist.closeReturns = 1
\* ---- C19 -------------------------------------------------------------------
\* The remote task waits in a callback for a value the client has not sent and
\* on a channel nobody has closed.
RemoteAwaitsClient ==
  \/ rpc = "fp_wait" /\ fpCh = <<>> /\ ~fpChClosed
  \/ rpc = "cred_wait" /\ credCh = <<>> /\ ~credChClosed

\* The control task waits inside getRemote for the handle channel.
ControlAwaitsRemote ==
  ctl \in {"local_getRemote", "close_getRemote"} /\ ~GetRemoteReady

\* C19: the control task and the remote task never wait on each other: while
\* the remote task waits in a callback for the client's answer, the control
\* task is not blocked in getRemote, so it can still handle the answer.
C19_NoMutualWait == ~(RemoteAwaitsClient /\ ControlAwaitsRemote)
\* ---- C20 -------------------------------------------------------------------
\* No remote task was ever spawned: Bootup was not called or returned an error.
NoRemoteTask == rpc = "none" /\ booted \in {"no", "failed"}

\* C20: Close returns from every state of the session; in particular it is
\* never left waiting in getRemote for a handle channel that no task will
\* send on or close, as it would be with no remote task spawned.
C20_CloseNeverStuck ==
  ~(ctl = "close_getRemote" /\ ~GetRemoteReady /\ NoRemoteTask)
====
